---- MODULE Spec2Model ----
\* Model of scripts/run_pipeline.py: the four-step video training pipeline
\* (captioning, preprocessing, YAML configuration update, training).
\*
\* Text is modelled as a sequence of characters, so that str.split('x') and
\* int() are computed on the characters.  A character is a one-character
\* string when it is printable ASCII, tab, line feed, vertical tab, form feed
\* or carriage return, and the string "U+" followed by its code point in
\* four to six hexadecimal digits otherwise ("U+0663" is ARABIC-INDIC DIGIT
\* THREE, "U+00A0" the no-break space).  A path is the sequence of its
\* pieces, the separator "/" being a piece of its own.  A YAML document is a
\* record of the keys the script touches, together with the text yaml.dump
\* writes for the entries it does not touch.  The paths and the token that
\* go into the derived file are printable ASCII.  The base configuration
\* file is given by the document it loads as; the file update_yaml_config
\* writes is given by its bytes.
EXTENDS Integers, Sequences, FiniteSets, TLC

VARIABLES
    argv,                 \* the command line given by the caller
    args,                 \* argparse namespace (after defaults)
    fs,                   \* files on disk: path -> document (base) or bytes
    dirs,                 \* directories created by the run
    pc,                   \* position of main()
    running,              \* external processes currently running
    invoked,              \* steps started so far, in order
    results,              \* outcome of every step
    cmds,                 \* command line handed to every external process
    training_output_dir,  \* main's local variable
    updated_config_path,  \* main's local variable
    dims,                 \* update_yaml_config's local variable
    diag,                 \* message printed by update_yaml_config's handlers
    raised,               \* exception that left main(), if any
    exitCode,             \* process exit status, -1 while running
    pending,              \* update_yaml_config's locals once the file is open
    now,                  \* wall clock, in ticks
    peer                  \* a second invocation of the script, on the same disk

vars == << argv, args, fs, dirs, pc, running, invoked, results, cmds,
           training_output_dir, updated_config_path, dims, diag, raised,
           exitCode, pending, now, peer >>

\* ------------------------------------------------------------------ bounds
\* Longest caller-chosen text generated over GenChars (besides Samples).
MaxLen == 3
\* Last tick of the wall clock.
MaxTicks == 3

\* ------------------------------------------------------------------ text
Absent == << >>
NotGiven == << "<not given>" >>
NoToken == << >>

\* The decimal digits int() accepts: every character of the Unicode category
\* Nd (Unicode 14.0, the database of Python 3.11), grouped by value:
\* DigitChars[v + 1] holds the 66 characters that stand for the digit v.
DigitChars ==
    <<
      {
        "0", "U+0660", "U+06F0", "U+07C0", "U+0966", "U+09E6", "U+0A66",
        "U+0AE6", "U+0B66", "U+0BE6", "U+0C66", "U+0CE6", "U+0D66",
        "U+0DE6", "U+0E50", "U+0ED0", "U+0F20", "U+1040", "U+1090",
        "U+17E0", "U+1810", "U+1946", "U+19D0", "U+1A80", "U+1A90",
        "U+1B50", "U+1BB0", "U+1C40", "U+1C50", "U+A620", "U+A8D0",
        "U+A900", "U+A9D0", "U+A9F0", "U+AA50", "U+ABF0", "U+FF10",
        "U+104A0", "U+10D30", "U+11066", "U+110F0", "U+11136", "U+111D0",
        "U+112F0", "U+11450", "U+114D0", "U+11650", "U+116C0", "U+11730",
        "U+118E0", "U+11950", "U+11C50", "U+11D50", "U+11DA0", "U+16A60",
        "U+16AC0", "U+16B50", "U+1D7CE", "U+1D7D8", "U+1D7E2", "U+1D7EC",
        "U+1D7F6", "U+1E140", "U+1E2F0", "U+1E950", "U+1FBF0" },
      {
        "1", "U+0661", "U+06F1", "U+07C1", "U+0967", "U+09E7", "U+0A67",
        "U+0AE7", "U+0B67", "U+0BE7", "U+0C67", "U+0CE7", "U+0D67",
        "U+0DE7", "U+0E51", "U+0ED1", "U+0F21", "U+1041", "U+1091",
        "U+17E1", "U+1811", "U+1947", "U+19D1", "U+1A81", "U+1A91",
        "U+1B51", "U+1BB1", "U+1C41", "U+1C51", "U+A621", "U+A8D1",
        "U+A901", "U+A9D1", "U+A9F1", "U+AA51", "U+ABF1", "U+FF11",
        "U+104A1", "U+10D31", "U+11067", "U+110F1", "U+11137", "U+111D1",
        "U+112F1", "U+11451", "U+114D1", "U+11651", "U+116C1", "U+11731",
        "U+118E1", "U+11951", "U+11C51", "U+11D51", "U+11DA1", "U+16A61",
        "U+16AC1", "U+16B51", "U+1D7CF", "U+1D7D9", "U+1D7E3", "U+1D7ED",
        "U+1D7F7", "U+1E141", "U+1E2F1", "U+1E951", "U+1FBF1" },
      {
        "2", "U+0662", "U+06F2", "U+07C2", "U+0968", "U+09E8", "U+0A68",
        "U+0AE8", "U+0B68", "U+0BE8", "U+0C68", "U+0CE8", "U+0D68",
        "U+0DE8", "U+0E52", "U+0ED2", "U+0F22", "U+1042", "U+1092",
        "U+17E2", "U+1812", "U+1948", "U+19D2", "U+1A82", "U+1A92",
        "U+1B52", "U+1BB2", "U+1C42", "U+1C52", "U+A622", "U+A8D2",
        "U+A902", "U+A9D2", "U+A9F2", "U+AA52", "U+ABF2", "U+FF12",
        "U+104A2", "U+10D32", "U+11068", "U+110F2", "U+11138", "U+111D2",
        "U+112F2", "U+11452", "U+114D2", "U+11652", "U+116C2", "U+11732",
        "U+118E2", "U+11952", "U+11C52", "U+11D52", "U+11DA2", "U+16A62",
        "U+16AC2", "U+16B52", "U+1D7D0", "U+1D7DA", "U+1D7E4", "U+1D7EE",
        "U+1D7F8", "U+1E142", "U+1E2F2", "U+1E952", "U+1FBF2" },
      {
        "3", "U+0663", "U+06F3", "U+07C3", "U+0969", "U+09E9", "U+0A69",
        "U+0AE9", "U+0B69", "U+0BE9", "U+0C69", "U+0CE9", "U+0D69",
        "U+0DE9", "U+0E53", "U+0ED3", "U+0F23", "U+1043", "U+1093",
        "U+17E3", "U+1813", "U+1949", "U+19D3", "U+1A83", "U+1A93",
        "U+1B53", "U+1BB3", "U+1C43", "U+1C53", "U+A623", "U+A8D3",
        "U+A903", "U+A9D3", "U+A9F3", "U+AA53", "U+ABF3", "U+FF13",
        "U+104A3", "U+10D33", "U+11069", "U+110F3", "U+11139", "U+111D3",
        "U+112F3", "U+11453", "U+114D3", "U+11653", "U+116C3", "U+11733",
        "U+118E3", "U+11953", "U+11C53", "U+11D53", "U+11DA3", "U+16A63",
        "U+16AC3", "U+16B53", "U+1D7D1", "U+1D7DB", "U+1D7E5", "U+1D7EF",
        "U+1D7F9", "U+1E143", "U+1E2F3", "U+1E953", "U+1FBF3" },
      {
        "4", "U+0664", "U+06F4", "U+07C4", "U+096A", "U+09EA", "U+0A6A",
        "U+0AEA", "U+0B6A", "U+0BEA", "U+0C6A", "U+0CEA", "U+0D6A",
        "U+0DEA", "U+0E54", "U+0ED4", "U+0F24", "U+1044", "U+1094",
        "U+17E4", "U+1814", "U+194A", "U+19D4", "U+1A84", "U+1A94",
        "U+1B54", "U+1BB4", "U+1C44", "U+1C54", "U+A624", "U+A8D4",
        "U+A904", "U+A9D4", "U+A9F4", "U+AA54", "U+ABF4", "U+FF14",
        "U+104A4", "U+10D34", "U+1106A", "U+110F4", "U+1113A", "U+111D4",
        "U+112F4", "U+11454", "U+114D4", "U+11654", "U+116C4", "U+11734",
        "U+118E4", "U+11954", "U+11C54", "U+11D54", "U+11DA4", "U+16A64",
        "U+16AC4", "U+16B54", "U+1D7D2", "U+1D7DC", "U+1D7E6", "U+1D7F0",
        "U+1D7FA", "U+1E144", "U+1E2F4", "U+1E954", "U+1FBF4" },
      {
        "5", "U+0665", "U+06F5", "U+07C5", "U+096B", "U+09EB", "U+0A6B",
        "U+0AEB", "U+0B6B", "U+0BEB", "U+0C6B", "U+0CEB", "U+0D6B",
        "U+0DEB", "U+0E55", "U+0ED5", "U+0F25", "U+1045", "U+1095",
        "U+17E5", "U+1815", "U+194B", "U+19D5", "U+1A85", "U+1A95",
        "U+1B55", "U+1BB5", "U+1C45", "U+1C55", "U+A625", "U+A8D5",
        "U+A905", "U+A9D5", "U+A9F5", "U+AA55", "U+ABF5", "U+FF15",
        "U+104A5", "U+10D35", "U+1106B", "U+110F5", "U+1113B", "U+111D5",
        "U+112F5", "U+11455", "U+114D5", "U+11655", "U+116C5", "U+11735",
        "U+118E5", "U+11955", "U+11C55", "U+11D55", "U+11DA5", "U+16A65",
        "U+16AC5", "U+16B55", "U+1D7D3", "U+1D7DD", "U+1D7E7", "U+1D7F1",
        "U+1D7FB", "U+1E145", "U+1E2F5", "U+1E955", "U+1FBF5" },
      {
        "6", "U+0666", "U+06F6", "U+07C6", "U+096C", "U+09EC", "U+0A6C",
        "U+0AEC", "U+0B6C", "U+0BEC", "U+0C6C", "U+0CEC", "U+0D6C",
        "U+0DEC", "U+0E56", "U+0ED6", "U+0F26", "U+1046", "U+1096",
        "U+17E6", "U+1816", "U+194C", "U+19D6", "U+1A86", "U+1A96",
        "U+1B56", "U+1BB6", "U+1C46", "U+1C56", "U+A626", "U+A8D6",
        "U+A906", "U+A9D6", "U+A9F6", "U+AA56", "U+ABF6", "U+FF16",
        "U+104A6", "U+10D36", "U+1106C", "U+110F6", "U+1113C", "U+111D6",
        "U+112F6", "U+11456", "U+114D6", "U+11656", "U+116C6", "U+11736",
        "U+118E6", "U+11956", "U+11C56", "U+11D56", "U+11DA6", "U+16A66",
        "U+16AC6", "U+16B56", "U+1D7D4", "U+1D7DE", "U+1D7E8", "U+1D7F2",
        "U+1D7FC", "U+1E146", "U+1E2F6", "U+1E956", "U+1FBF6" },
      {
        "7", "U+0667", "U+06F7", "U+07C7", "U+096D", "U+09ED", "U+0A6D",
        "U+0AED", "U+0B6D", "U+0BED", "U+0C6D", "U+0CED", "U+0D6D",
        "U+0DED", "U+0E57", "U+0ED7", "U+0F27", "U+1047", "U+1097",
        "U+17E7", "U+1817", "U+194D", "U+19D7", "U+1A87", "U+1A97",
        "U+1B57", "U+1BB7", "U+1C47", "U+1C57", "U+A627", "U+A8D7",
        "U+A907", "U+A9D7", "U+A9F7", "U+AA57", "U+ABF7", "U+FF17",
        "U+104A7", "U+10D37", "U+1106D", "U+110F7", "U+1113D", "U+111D7",
        "U+112F7", "U+11457", "U+114D7", "U+11657", "U+116C7", "U+11737",
        "U+118E7", "U+11957", "U+11C57", "U+11D57", "U+11DA7", "U+16A67",
        "U+16AC7", "U+16B57", "U+1D7D5", "U+1D7DF", "U+1D7E9", "U+1D7F3",
        "U+1D7FD", "U+1E147", "U+1E2F7", "U+1E957", "U+1FBF7" },
      {
        "8", "U+0668", "U+06F8", "U+07C8", "U+096E", "U+09EE", "U+0A6E",
        "U+0AEE", "U+0B6E", "U+0BEE", "U+0C6E", "U+0CEE", "U+0D6E",
        "U+0DEE", "U+0E58", "U+0ED8", "U+0F28", "U+1048", "U+1098",
        "U+17E8", "U+1818", "U+194E", "U+19D8", "U+1A88", "U+1A98",
        "U+1B58", "U+1BB8", "U+1C48", "U+1C58", "U+A628", "U+A8D8",
        "U+A908", "U+A9D8", "U+A9F8", "U+AA58", "U+ABF8", "U+FF18",
        "U+104A8", "U+10D38", "U+1106E", "U+110F8", "U+1113E", "U+111D8",
        "U+112F8", "U+11458", "U+114D8", "U+11658", "U+116C8", "U+11738",
        "U+118E8", "U+11958", "U+11C58", "U+11D58", "U+11DA8", "U+16A68",
        "U+16AC8", "U+16B58", "U+1D7D6", "U+1D7E0", "U+1D7EA", "U+1D7F4",
        "U+1D7FE", "U+1E148", "U+1E2F8", "U+1E958", "U+1FBF8" },
      {
        "9", "U+0669", "U+06F9", "U+07C9", "U+096F", "U+09EF", "U+0A6F",
        "U+0AEF", "U+0B6F", "U+0BEF", "U+0C6F", "U+0CEF", "U+0D6F",
        "U+0DEF", "U+0E59", "U+0ED9", "U+0F29", "U+1049", "U+1099",
        "U+17E9", "U+1819", "U+194F", "U+19D9", "U+1A89", "U+1A99",
        "U+1B59", "U+1BB9", "U+1C49", "U+1C59", "U+A629", "U+A8D9",
        "U+A909", "U+A9D9", "U+A9F9", "U+AA59", "U+ABF9", "U+FF19",
        "U+104A9", "U+10D39", "U+1106F", "U+110F9", "U+1113F", "U+111D9",
        "U+112F9", "U+11459", "U+114D9", "U+11659", "U+116C9", "U+11739",
        "U+118E9", "U+11959", "U+11C59", "U+11D59", "U+11DA9", "U+16A69",
        "U+16AC9", "U+16B59", "U+1D7D7", "U+1D7E1", "U+1D7EB", "U+1D7F5",
        "U+1D7FF", "U+1E149", "U+1E2F9", "U+1E959", "U+1FBF9" } >>

Digits == UNION { DigitChars[v + 1] : v \in 0..9 }

DigitVal(c) == CHOOSE v \in 0..9 : c \in DigitChars[v + 1]

\* os.path.join(a, b) for a non-empty b.
Join(a, b) ==
    IF Head(b) = "/" THEN b
    ELSE IF a = << >> \/ a[Len(a)] = "/" THEN a \o b
    ELSE a \o << "/" >> \o b

\* os.path.basename(path): what follows the last separator.
RECURSIVE Basename(_)
Basename(path) ==
    IF \A i \in 1..Len(path) : path[i] # "/" THEN path
    ELSE Basename(Tail(path))

\* str.split('x'): the pieces between the separators, empty pieces kept.
\* With n separators there are n + 1 pieces; piece k lies between separator
\* k - 1 (or the start) and separator k (or the end).
SplitX(s) ==
    LET seps   == { i \in 1..Len(s) : s[i] = "x" }
        n      == Cardinality(seps)
        sep(k) == IF k = 0 THEN 0
                  ELSE IF k = n + 1 THEN Len(s) + 1
                  ELSE CHOOSE i \in seps : Cardinality({ j \in seps : j <= i }) = k
    IN  [k \in 1..(n + 1) |-> SubSeq(s, sep(k - 1) + 1, sep(k) - 1)]

\* White space as int() sees it: tab, line feed, vertical tab, form feed,
\* carriage return, space, and the white space beyond ASCII (next line,
\* no-break space, the Unicode space separators, line and paragraph
\* separator).  The separators U+001C to U+001F are not among them.
Whitespace ==
    {
      "\t", "\n", "", "\f", "\r", " ", "U+0085", "U+00A0", "U+1680",
      "U+2000", "U+2001", "U+2002", "U+2003", "U+2004", "U+2005", "U+2006",
      "U+2007", "U+2008", "U+2009", "U+200A", "U+2028", "U+2029", "U+202F",
      "U+205F", "U+3000" }

\* int() strips surrounding white space ...
RECURSIVE LStrip(_)
LStrip(s) ==
    IF s # << >> /\ Head(s) \in Whitespace THEN LStrip(Tail(s)) ELSE s

RECURSIVE RStrip(_)
RStrip(s) ==
    IF s # << >> /\ s[Len(s)] \in Whitespace THEN RStrip(SubSeq(s, 1, Len(s) - 1))
    ELSE s

Strip(s) == RStrip(LStrip(s))

\* ... accepts one leading sign ...
Unsigned(s) ==
    IF s # << >> /\ Head(s) \in {"+", "-"} THEN Tail(s) ELSE s

\* ... and then needs one or more decimal digits, where single underscores
\* may stand between two digits.
IntLiteral(s) ==
    LET u == Unsigned(Strip(s))
    IN  /\ u # << >>
        /\ \A i \in 1..Len(u) : u[i] \in Digits \cup { "_" }
        /\ \A i \in 1..Len(u) :
             u[i] = "_" => /\ 1 < i /\ i < Len(u)
                           /\ u[i - 1] \in Digits /\ u[i + 1] \in Digits

\* sys.get_int_max_str_digits(): int() converts no text with more digits.
MaxStrDigits == 4300

\* The digits of s, leading zeros included; sign, underscores and white
\* space are not counted.
DigitCount(s) == Cardinality({ i \in 1..Len(s) : s[i] \in Digits })

\* int(s) returns a value: s is a literal of at most MaxStrDigits digits.
\* Otherwise it raises ValueError.
IntOk(s) == IntLiteral(s) /\ DigitCount(s) <= MaxStrDigits

\* The value of the digits of u; underscores count for nothing.
RECURSIVE DecDigits(_)
DecDigits(u) ==
    IF u = << >> THEN 0
    ELSE IF u[Len(u)] = "_" THEN DecDigits(SubSeq(u, 1, Len(u) - 1))
    ELSE 10 * DecDigits(SubSeq(u, 1, Len(u) - 1)) + DigitVal(u[Len(u)])

\* Leading zeros add nothing to the value.
DecVal(u) ==
    CHOOSE v \in
      UNION { { IF sig = {} THEN 0
                ELSE DecDigits(SubSeq(t, CHOOSE i \in sig : \A j \in sig : i <= j,
                                      Len(t)))
                : sig \in { { i \in 1..Len(t) : t[i] \in Digits /\ DigitVal(t[i]) # 0 } } }
              : t \in { u } } : TRUE

IntVal(s) ==
    CHOOSE v \in
      { IF t # << >> /\ Head(t) = "-" THEN 0 - DecVal(Unsigned(t))
        ELSE DecVal(Unsigned(t)) : t \in { Strip(s) } } : TRUE

\* [int(x) for x in text.split('x')]: ValueError when a piece is no integer.
\* The list of pieces is computed once, as Python does.
ParseDims(s) ==
    CHOOSE r \in
      { IF \A i \in 1..Len(parts) : IntOk(parts[i])
        THEN [ok |-> TRUE, dims |-> [i \in 1..Len(parts) |-> IntVal(parts[i])]]
        ELSE [ok |-> FALSE, dims |-> << >>] : parts \in { SplitX(s) } } : TRUE

\* Python truth value of an optional text argument.
Truthy(s) == s # NotGiven /\ s # << >>

\* ------------------------------------------------------------------ inputs
Text(n) == UNION { [1..k -> {"1", "x"}] : k \in 0..n }

T512x512x16  == << "5","1","2","x","5","1","2","x","1","6" >>
T640x360x9   == << "6","4","0","x","3","6","0","x","9" >>
T768x768x25  == << "7","6","8","x","7","6","8","x","2","5" >>
T768x768x89  == << "7","6","8","x","7","6","8","x","8","9" >>
T512x512     == << "5","1","2","x","5","1","2" >>
T1x2x3x4     == << "1","x","2","x","3","x","4" >>
T1x2x3x      == << "1","x","2","x","3","x" >>
T512x512xq   == << "5","1","2","x","5","1","2","x","q" >>
TNeg1x512x16 == << "-","1","x","5","1","2","x","1","6" >>
T0x512x16    == << "0","x","5","1","2","x","1","6" >>
TSp5x6x7     == << " ","5","x","6","x","7" >>
T1_0x2x3     == << "1","_","0","x","2","x","3" >>
T1__0x2x3    == << "1","_","_","0","x","2","x","3" >>
T1xTab2x3    == << "1","x","\t","2","x","3" >>
T5x6x7Nl     == << "5","x","6","x","7","\n" >>
TVt1x2x3Nbsp == << "","1","x","2","x","3","U+00A0" >>
TArabic3x2x3 == << "U+0663","x","2","x","3" >>
T1Arabic3x5  == << "1","U+0663","x","U+FF15","x","U+3000","7","U+2028" >>
TFs1x2x3     == << "U+001C","1","x","2","x","3" >>
TMinus1x2x3  == << "U+2212","1","x","2","x","3" >>

\* Texts around the digit limit of int(): the width of the first has
\* MaxStrDigits digits, the width of the second one digit more.
Zeros(n) == [i \in 1..n |-> "0"]
TAtLimit   == Zeros(MaxStrDigits - 3) \o T512x512x16
TOverLimit == Zeros(MaxStrDigits - 2) \o T512x512x16

Samples ==
    { T512x512x16, T640x360x9, T768x768x25, T768x768x89, T512x512, T1x2x3x4,
      T1x2x3x, T512x512xq, TNeg1x512x16, T0x512x16, TSp5x6x7,
      T1_0x2x3, T1__0x2x3, T1xTab2x3, T5x6x7Nl, TVt1x2x3Nbsp, TArabic3x2x3,
      T1Arabic3x5, TFs1x2x3, TMinus1x2x3 }

\* Texts a caller may pass for --video_dims and --resolution_buckets.
DimTexts == Samples \cup Text(MaxLen)

DatasetDir == << "videos" >>
RootOverride == << "cache", "/", "pre" >>
CaptionsOverride == << "work", "/", "caps", ".json" >>
BaseVideoDims == << 704, 480, 161 >>

Argvs ==
    [ dataset_dir            : { DatasetDir },
      captions_output        : { NotGiven, CaptionsOverride },
      output_dir_base        : { NotGiven },
      id_token               : { NotGiven },
      config_path            : { NotGiven },
      preprocessed_data_root : { NotGiven, RootOverride },
      resolution_buckets     : { NotGiven } \cup DimTexts,
      video_dims             : { NotGiven } \cup DimTexts ]

\* Command lines with a --video_dims text at the digit limit of int().
ArgvsLong ==
    [ dataset_dir            : { DatasetDir },
      captions_output        : { NotGiven },
      output_dir_base        : { NotGiven },
      id_token               : { NotGiven },
      config_path            : { NotGiven },
      preprocessed_data_root : { NotGiven },
      resolution_buckets     : { NotGiven },
      video_dims             : { TAtLimit, TOverLimit } ]

\* Command lines that vary the paths, the token and the configuration file
\* name, with a few texts for the dimensions.
DatasetDirSlash == << "videos", "/" >>
OutputBaseOverride == << "runs" >>
TokenOverride == << "tok" >>
ConfigYml == << "my", ".yml" >>
ConfigYamlBak == << "exp", "/", "run", ".yaml", ".bak" >>

ArgvsWide ==
    [ dataset_dir            : { DatasetDir, DatasetDirSlash },
      captions_output        : { NotGiven, CaptionsOverride },
      output_dir_base        : { NotGiven, OutputBaseOverride },
      id_token               : { NotGiven, TokenOverride },
      config_path            : { NotGiven, ConfigYml, ConfigYamlBak },
      preprocessed_data_root : { NotGiven, << >>, RootOverride },
      resolution_buckets     : { NotGiven, T512x512x16, T512x512xq },
      video_dims             : { NotGiven, << >>, T640x360x9, T512x512 } ]

\* What yaml.dump hands to the stream: the text, and the offsets in it at
\* which a call of stream.write ends.
NoWrites == [text |-> "", cuts |-> {}]

\* One call of stream.write.
Piece(s) == [text |-> s, cuts |-> IF s = "" THEN {} ELSE { Len(s) }]

Cat(f, g) ==
    CHOOSE r \in
      { [text |-> a.text \o b.text,
         cuts |-> a.cuts \cup { Len(a.text) + c : c \in b.cuts }]
        : a \in { f }, b \in { g } } : TRUE

\* The writes of ws one after the other.
RECURSIVE WritesUpTo(_, _)
WritesUpTo(ws, n) == IF n = 0 THEN NoWrites ELSE Cat(WritesUpTo(ws, n - 1), ws[n])

Writes(ws) == CHOOSE r \in { WritesUpTo(w, Len(w)) : w \in { ws } } : TRUE

\* n copies of c.
RECURSIVE Rep(_, _)
Rep(c, n) ==
    IF n <= 0 THEN ""
    ELSE CHOOSE r \in { h \o h \o (IF n % 2 = 1 THEN c ELSE "")
                        : h \in { Rep(c, n \div 2) } } : TRUE

\* n times the writes of f.
Times(f, n) ==
    [text |-> Rep(f.text, n),
     cuts |-> { k * Len(f.text) + c : k \in 0..(n - 1), c \in f.cuts }]

\* The entries of a document that the script does not touch, by what
\* yaml.dump writes for them.  The keys are written in sorted order: top
\* holds the top-level entries before data, between data and output_dir,
\* between output_dir and validation, and after validation; data those of
\* the data mapping before preprocessed_data_root, between it and
\* training_token, and after training_token; validation those of the
\* validation mapping before and after video_dims.  validation_value is
\* what follows "validation:" when the value is no mapping.
NoRest ==
    [ top |-> << NoWrites, NoWrites, NoWrites, NoWrites >>,
      data |-> << NoWrites, NoWrites, NoWrites >>,
      validation |-> << NoWrites, NoWrites >>,
      validation_value |-> NoWrites ]

\* validation: null
NullValue == Writes(<< Piece(" "), Piece("null"), Piece("\n") >>)

\* A YAML file as yaml.safe_load sees it: loaded says whether the file parses
\* to a mapping, to nothing (an empty file) or not at all; data and validation
\* say whether the key is absent, holds a mapping or holds something else;
\* has_video_dims says whether the validation mapping has the key video_dims.
Doc(l, d, v, vd) ==
    [ loaded |-> l, data |-> d, validation |-> v,
      preprocessed_data_root |-> IF d = "map" THEN << "old_root" >> ELSE Absent,
      training_token |-> IF d = "map" THEN << "old_token" >> ELSE NoToken,
      has_video_dims |-> vd # Absent,
      video_dims |-> vd,
      output_dir |-> IF l = "map" THEN << "old_out" >> ELSE Absent,
      rest |-> IF v \notin { "absent", "map" }
               THEN [NoRest EXCEPT !.validation_value = NullValue]
               ELSE NoRest ]

\* A base configuration whose validation mapping holds an empty video_dims
\* list.
DocEmptyDims == [Doc("map", "map", "map", Absent) EXCEPT !.has_video_dims = TRUE]

\* A base configuration whose validation entry is the list [1, 2].
DocValidationList ==
    [Doc("map", "map", "sequence", Absent) EXCEPT !.rest.validation_value =
       Writes(<< Piece("\n"), Piece("-"), Piece(" "), Piece("1"), Piece("\n"),
                 Piece("-"), Piece(" "), Piece("2"), Piece("\n") >>)]

\* A base configuration with further entries at every level.
DocWithRest ==
    [Doc("map", "map", "map", BaseVideoDims) EXCEPT !.rest =
       [ top |-> <<
           Writes(<< Piece("acceleration"), Piece(":"), Piece("\n"), Piece("  "),
                     Piece("mixed_precision_mode"), Piece(":"), Piece(" "),
                     Piece("bf16"), Piece("\n") >>),
           Writes(<< Piece("model"), Piece(":"), Piece("\n"), Piece("  "),
                     Piece("training_mode"), Piece(":"), Piece(" "), Piece("lora"),
                     Piece("\n") >>),
           Writes(<< Piece("seed"), Piece(":"), Piece(" "), Piece("42"), Piece("\n") >>),
           Writes(<< Piece("wandb"), Piece(":"), Piece("\n"), Piece("  "),
                     Piece("enabled"), Piece(":"), Piece(" "), Piece("false"),
                     Piece("\n") >>) >>,
         data |-> <<
           Writes(<< Piece("  "), Piece("num_workers"), Piece(":"), Piece(" "),
                     Piece("2"), Piece("\n") >>),
           Writes(<< Piece("  "), Piece("shuffle"), Piece(":"), Piece(" "),
                     Piece("true"), Piece("\n") >>),
           Writes(<< Piece("  "), Piece("video_column"), Piece(":"), Piece(" "),
                     Piece("media_path"), Piece("\n") >>) >>,
         validation |-> <<
           Writes(<< Piece("  "), Piece("prompts"), Piece(":"), Piece("\n"),
                     Piece("  "), Piece("-"), Piece(" "), Piece("a"), Piece(" "),
                     Piece("cat"), Piece(" "), Piece("playing"), Piece("\n"),
                     Piece("  "), Piece("-"), Piece(" "), Piece("x"), Piece("\n") >>),
           Writes(<< Piece("  "), Piece("videos_per_prompt"), Piece(":"), Piece(" "),
                     Piece("1"), Piece("\n") >>) >>,
         validation_value |-> NoWrites ]]

\* A base configuration whose validation mapping lists MaxImages image
\* paths: its text is longer than the stream's chunk.
MaxImages == 95

ImageItem ==
    Writes(<< Piece("  "), Piece("-"), Piece(" "),
              Piece("/data/validation/images/reference_frame_for_prompt_number_0001"
                      \o "_of_the_validation_set.png"),
              Piece("\n") >>)

DocManyImages ==
    [Doc("map", "map", "map", BaseVideoDims) EXCEPT !.rest.validation[1] =
       Cat(Writes(<< Piece("  "), Piece("images"), Piece(":"), Piece("\n") >>),
           Times(ImageItem, MaxImages))]

BaseDocs ==
    { Doc("unparseable", "absent", "absent", Absent),
      Doc("null", "absent", "absent", Absent) }
    \cup { Doc("map", d, v, Absent) :
             d \in {"absent", "scalar", "map"}, v \in {"absent", "scalar", "map"} }
    \cup { Doc("map", d, "map", BaseVideoDims) : d \in {"absent", "scalar", "map"} }
    \cup { DocEmptyDims, DocValidationList, DocWithRest, DocManyImages }

\* ------------------------------------------------------------------ argparse
DefaultResolutionBuckets == T768x768x25
DefaultVideoDims == T768x768x89
DefaultConfigPath == << "configs", "/", "ltxv_2b_lora", ".yaml" >>
DefaultOutputDirBase == << "outputs" >>
DefaultIdToken == << "T1m3l4ps3" >>

OrDefault(given, default) == IF given = NotGiven THEN default ELSE given

\* parser.parse_args() followed by the captions_output default.
parse_args(a) ==
    [ dataset_dir            |-> a.dataset_dir,
      captions_output        |-> IF a.captions_output = NotGiven
                                 THEN Join(a.dataset_dir, << "captions", ".json" >>)
                                 ELSE a.captions_output,
      output_dir_base        |-> OrDefault(a.output_dir_base, DefaultOutputDirBase),
      captioner_type         |-> "llava_next_7b",
      caption_column         |-> "caption",
      video_column           |-> "media_path",
      id_token               |-> OrDefault(a.id_token, DefaultIdToken),
      resolution_buckets     |-> OrDefault(a.resolution_buckets, DefaultResolutionBuckets),
      config_path            |-> OrDefault(a.config_path, DefaultConfigPath),
      preprocessed_data_root |-> a.preprocessed_data_root,
      video_dims             |-> OrDefault(a.video_dims, DefaultVideoDims) ]

\* ------------------------------------------------------------------ update_yaml_config
DataErrorNever(config) == "none"

\* config['data'][key] = value needs config to be a mapping whose 'data'
\* entry is a mapping; otherwise KeyError or TypeError.
DataError(config) ==
    IF config.loaded = "null" THEN "TypeError"
    ELSE IF config.data = "absent" THEN "KeyError"
    ELSE IF config.data # "map" THEN "TypeError"
    ELSE "none"

\* config['validation']['video_dims'] = value, likewise.
ValidationError(config) ==
    IF config.validation = "absent" THEN "KeyError"
    ELSE IF config.validation # "map" THEN "TypeError"
    ELSE "none"

\* The text whose pieces become video_dims, and the handler that guards it.
DimsBranch(a) == IF Truthy(a.video_dims) THEN "video_dims" ELSE "resolution_buckets"

DimsText(a) ==
    IF DimsBranch(a) = "video_dims" THEN a.video_dims ELSE a.resolution_buckets

\* Both branches store the list only when it has three entries.
DimsAccepted(d) == Len(d) = 3

HandlesNothing(e) == FALSE

\* "except Exception as e": the handler of either try block takes every
\* exception raised inside the block.
Handles(e) == e \in { "ValueError", "KeyError", "TypeError" }

\* The exception raised inside the try block of lines 73-88, "none" if the
\* block runs to its end.
DimsError(a, config) ==
    CHOOSE e \in
      { IF ~parsed.ok THEN "ValueError"
        ELSE IF ~DimsAccepted(parsed.dims)
        THEN IF DimsBranch(a) = "video_dims" THEN "ValueError" ELSE "none"
        ELSE ValidationError(config)
        : parsed \in { ParseDims(DimsText(a)) } } : TRUE

\* Lines 73-88: config is changed only by the assignment, which is the last
\* statement of its block; a handled exception is printed, nothing more.
update_video_dims(a, config) ==
    CHOOSE r \in
      { [ config |-> IF e = "none" /\ DimsAccepted(parsed.dims)
                     THEN [config EXCEPT !.video_dims = parsed.dims,
                                         !.has_video_dims = TRUE]
                     ELSE config,
          dims   |-> parsed.dims,
          diag   |-> IF e # "none" /\ Handles(e) THEN DimsBranch(a) ELSE "none",
          raised |-> IF Handles(e) THEN "none" ELSE e ]
        : parsed \in { ParseDims(DimsText(a)) }, e \in { DimsError(a, config) } } : TRUE

\* os.path.basename(config_path).replace('.yaml', '_updated.yaml'), with the
\* file name as the sequence of its pieces.
RECURSIVE ReplaceYaml(_)
ReplaceYaml(name) ==
    IF name = << >> THEN << >>
    ELSE IF Head(name) = ".yaml"
         THEN << "_updated", ".yaml" >> \o ReplaceYaml(Tail(name))
         ELSE << Head(name) >> \o ReplaceYaml(Tail(name))

UpdatedConfigPath(a, outdir) ==
    Join(outdir, ReplaceYaml(Basename(a.config_path)))

data_root_ignores_override(a) == Join(a.dataset_dir, << ".precomputed" >>)

\* Lines 64-67: the override if it is given and not empty, otherwise
\* dataset_dir/.precomputed.
data_root(a) ==
    IF Truthy(a.preprocessed_data_root) THEN a.preprocessed_data_root
    ELSE Join(a.dataset_dir, << ".precomputed" >>)

set_training_token_if_missing(config, a) ==
    IF config.training_token = NoToken
    THEN [config EXCEPT !.training_token = a.id_token]
    ELSE config

\* Line 91: config['data']['training_token'] = args.id_token.
set_training_token(config, a) == [config EXCEPT !.training_token = a.id_token]

set_output_dir_moves_data_root(config, outdir) ==
    [config EXCEPT !.output_dir = outdir,
                   !.preprocessed_data_root = Join(outdir, << ".precomputed" >>)]

\* Line 70: config['output_dir'] = training_output_dir.
set_output_dir(config, outdir) == [config EXCEPT !.output_dir = outdir]

\* No document: what yaml.safe_load gives for an empty file.
NoDoc == Doc("null", "absent", "absent", Absent)

\* A file the script has written, by its bytes: text holds a character for
\* every byte, and holes the offsets (counted from 0) of the bytes that were
\* never written, which read as zero bytes; text has "." at these offsets.
\* open(path, 'w') leaves the file empty.
EmptyFile == [text |-> "", holes |-> {}]

\* ------------------------------------------------------------------ yaml.dump
\* The characters of a text given by its pieces, as one string.
RECURSIVE Str(_)
Str(t) == IF t = << >> THEN "" ELSE Head(t) \o Str(Tail(t))

\* The character of s at position i.
Ch(s, i) == SubSeq(s, i, i)

Min(S) == CHOOSE x \in S : \A y \in S : x <= y
Max(S) == 0 - Min({ 0 - x : x \in S })

\* The characters of s from lo to hi all belong to C.
In(s, lo, hi, C) == \A i \in lo..hi : Ch(s, i) \in C

\* The positions that end a match of lo to hi characters of C begun at a
\* position of S (a position is the number of characters before it).
Step(s, S, C, lo, hi) ==
    { q \in 0..Len(s) : \E p \in S : q - p >= lo /\ q - p <= hi /\ In(s, p + 1, q, C) }

Lit(s, S, C) == Step(s, S, C, 1, 1)

\* The last position of the run of characters of C that starts at p.
RunEnd(s, p, C) ==
    LET stop == { i \in p..Len(s) : Ch(s, i) \notin C }
    IN  IF stop = {} THEN Len(s) ELSE Min(stop) - 1

Dec == { "0", "1", "2", "3", "4", "5", "6", "7", "8", "9" }
Hex == Dec \cup { "a", "b", "c", "d", "e", "f", "A", "B", "C", "D", "E", "F" }
Blank == { " ", "\t" }

\* The implicit resolvers of yaml.resolver.Resolver: a plain scalar that
\* matches one of them is read back as a boolean, a null, a number, a time
\* stamp, a merge key or a value key, not as a string.
YamlBool ==
    { "yes", "Yes", "YES", "no", "No", "NO", "true", "True", "TRUE", "false",
      "False", "FALSE", "on", "On", "ON", "off", "Off", "OFF" }

YamlNull == { "~", "null", "Null", "NULL", "" }

Unsign(s) == IF s # "" /\ Ch(s, 1) \in { "-", "+" } THEN SubSeq(s, 2, Len(s)) ELSE s

\* s from a to b is (:[0-5]?[0-9])+, base 60 groups.
Groups(s, a, b) ==
    /\ a <= b
    /\ Ch(s, a) = ":"
    /\ In(s, a, b, Dec \cup { ":" })
    /\ \A c \in { i \in a..b : Ch(s, i) = ":" } :
         \E nx \in { Min({ k \in (c + 1)..b : Ch(s, k) = ":" } \cup { b + 1 }) } :
            \/ nx - c = 2
            \/ nx - c = 3 /\ Ch(s, c + 1) \in { "0", "1", "2", "3", "4", "5" }

\* s from position p on is ([eE][-+][0-9]+)?.
Exponent(s, p) ==
    \/ p = Len(s)
    \/ /\ p + 3 <= Len(s)
       /\ Ch(s, p + 1) \in { "e", "E" }
       /\ Ch(s, p + 2) \in { "-", "+" }
       /\ In(s, p + 3, Len(s), Dec)

YamlInt(s) ==
    \E u \in { Unsign(s) } :
      LET n == Len(u)
          colons == { i \in 1..n : Ch(u, i) = ":" }
      IN  /\ n >= 1
          /\ \/ n >= 3 /\ SubSeq(u, 1, 2) = "0b" /\ In(u, 3, n, { "0", "1", "_" })
             \/ n >= 2 /\ Ch(u, 1) = "0"
                  /\ In(u, 2, n, { "0", "1", "2", "3", "4", "5", "6", "7", "_" })
             \/ u = "0"
             \/ Ch(u, 1) \in Dec \ { "0" } /\ In(u, 2, n, Dec \cup { "_" })
             \/ n >= 3 /\ SubSeq(u, 1, 2) = "0x" /\ In(u, 3, n, Hex \cup { "_" })
             \/ /\ Ch(u, 1) \in Dec \ { "0" }
                /\ colons # {}
                /\ In(u, 2, Min(colons) - 1, Dec \cup { "_" })
                /\ Groups(u, Min(colons), n)

YamlFloat(s) ==
    \/ \E u \in { Unsign(s) } :
         LET n == Len(u)
             dots == { i \in 1..n : Ch(u, i) = "." }
             colons == { i \in 1..n : Ch(u, i) = ":" }
         IN  /\ n >= 1
             /\ \/ /\ Ch(u, 1) \in Dec
                   /\ dots # {}
                   /\ In(u, 2, Min(dots) - 1, Dec \cup { "_" })
                   /\ Exponent(u, RunEnd(u, Min(dots) + 1, Dec \cup { "_" }))
                \/ /\ Ch(u, 1) \in Dec
                   /\ dots # {} /\ colons # {}
                   /\ Min(colons) < Min(dots)
                   /\ In(u, 2, Min(colons) - 1, Dec \cup { "_" })
                   /\ Groups(u, Min(colons), Min(dots) - 1)
                   /\ In(u, Min(dots) + 1, n, Dec \cup { "_" })
                \/ u \in { ".inf", ".Inf", ".INF" }
    \/ /\ Len(s) >= 2
       /\ Ch(s, 1) = "." /\ Ch(s, 2) \in Dec
       /\ Exponent(s, RunEnd(s, 3, Dec \cup { "_" }))
    \/ s \in { ".nan", ".NaN", ".NAN" }

YamlTimestamp(s) ==
    LET n == Len(s)
        year == Lit(s, Step(s, { 0 }, Dec, 4, 4), { "-" })
    IN  /\ year # {}
        /\ \/ /\ n = 10
              /\ In(s, 6, 7, Dec) /\ Ch(s, 8) = "-" /\ In(s, 9, 10, Dec)
           \/ \E day \in { Step(s, Lit(s, Step(s, year, Dec, 1, 2), { "-" }), Dec, 1, 2) } :
              \E hour \in { Step(s, Lit(s, day, { "T", "t" }) \cup Step(s, day, Blank, 1, n),
                                 Dec, 1, 2) } :
              \E sec \in { Step(s, Lit(s, Step(s, Lit(s, hour, { ":" }), Dec, 2, 2), { ":" }),
                                Dec, 2, 2) } :
              \E frac \in { sec \cup Step(s, Lit(s, sec, { "." }), Dec, 0, n) } :
              \E zone \in { Step(s, frac, Blank, 0, n) } :
              \E off \in { Step(s, Lit(s, zone, { "-", "+" }), Dec, 1, 2) } :
                 n \in frac \cup Lit(s, zone, { "Z" }) \cup off
                        \cup Step(s, Lit(s, off, { ":" }), Dec, 2, 2)

\* The resolver reads the plain scalar s back as the string s.
ResolvesToStr(s) ==
    /\ s \notin YamlBool \cup YamlNull \cup { "<<", "=" }
    /\ Ch(s, 1) \in Dec \cup { "-", "+", "." } => ~YamlInt(s) /\ ~YamlFloat(s)
    /\ Ch(s, 1) \in Dec => ~YamlTimestamp(s)

\* The grave accent.
Backtick == SubSeq("`'", 1, 1)

\* Emitter.analyze_scalar, for a string of printable ASCII characters: what
\* bars the plain style in a block mapping.
BlockIndicators(s) ==
    LET n == Len(s)
    IN  \/ n >= 3 /\ SubSeq(s, 1, 3) \in { "---", "..." }
        \/ Ch(s, 1) \in { "#", ",", "[", "]", "{", "}", "&", "*", "!", "|", ">",
                          "'", "\"", "%", "@", Backtick }
        \/ Ch(s, 1) \in { "?", ":", "-" } /\ (n = 1 \/ Ch(s, 2) = " ")
        \/ \E i \in 2..n :
             \/ Ch(s, i) = ":" /\ (i = n \/ Ch(s, i + 1) = " ")
             \/ Ch(s, i) = "#" /\ Ch(s, i - 1) = " "

\* Emitter.choose_scalar_style: plain if the scalar reads back as a string
\* and nothing bars the plain style, single-quoted otherwise.
Plain(s) ==
    /\ s # ""
    /\ Ch(s, 1) # " " /\ Ch(s, Len(s)) # " "
    /\ ResolvesToStr(s)
    /\ ~BlockIndicators(s)

\* Emitter.best_width: a line is broken at a space once it is wider.
BestWidth == 80

\* The single spaces of s, where write_plain and write_single_quoted may
\* break the line: a space inside s with no space next to it.
FoldAt(sp, n) ==
    { i \in sp : 1 < i /\ i < n /\ (i - 1) \notin sp /\ (i + 1) \notin sp }

\* The first of these spaces, from position from on, that the emitter
\* reaches past the best width when the character at from stands in column
\* col; 0 if there is none.  A quote takes two columns.
NextFold(from, col, cand, q) ==
    LET ok == { i \in cand :
                  /\ i >= from
                  /\ col + (i - from) + Cardinality({ k \in q : from <= k /\ k < i })
                       > BestWidth }
    IN  IF ok = {} THEN 0 ELSE Min(ok)

\* The spaces at which the line is broken, p being the first of them: every
\* new line starts in column indent.  n bounds their number.
RECURSIVE Folds(_, _, _, _, _)
Folds(p, n, cand, q, indent) ==
    IF p = 0 THEN {}
    ELSE IF n <= 1 THEN { p }
    ELSE CHOOSE r \in
           UNION { { a \cup b
                     : b \in { Folds(NextFold(Max(a) + 1, indent, cand, q),
                                     n - n \div 2, cand, q, indent) } }
                   : a \in { Folds(p, n \div 2, cand, q, indent) } } : TRUE

\* The characters lo to hi of s as written: a quote is doubled, a space
\* where the line is broken becomes a line break and the indentation.
RECURSIVE Written(_, _, _, _, _, _)
Written(s, lo, hi, q, f, indent) ==
    IF lo > hi THEN ""
    ELSE IF \A k \in q \cup f : k < lo \/ k > hi THEN SubSeq(s, lo, hi)
    ELSE IF lo = hi THEN (IF lo \in f THEN "\n" \o Rep(" ", indent) ELSE "''")
    ELSE Written(s, lo, (lo + hi) \div 2, q, f, indent)
           \o Written(s, (lo + hi) \div 2 + 1, hi, q, f, indent)

\* write_plain and write_single_quoted write the words, the runs of spaces
\* and the quotes of s one by one.
Body(s, sp, q, f, indent) ==
    LET n == Len(s)
        out(i) == i + Cardinality({ k \in q : k <= i })
                    + indent * Cardinality({ k \in f : k <= i })
        ends == { i \in 1..n :
                    \/ i = n
                    \/ i \in q \/ (i + 1) \in q
                    \/ (i \in sp) # ((i + 1) \in sp) }
    IN  [text |-> Written(s, 1, n, q, f, indent),
         cuts |-> { out(i) : i \in ends } \cup { out(k - 1) + 1 : k \in f }]

\* Emitter.process_scalar for the string s as a value in a block mapping or
\* sequence: col is the column after the key and its colon (or the dash),
\* indent the indentation of continuation lines.
Scalar(s, col, indent) ==
    CHOOSE r \in
      UNION { UNION { { Cat(Cat(Piece(IF plain THEN " " ELSE " '"),
                                Body(s, sp, q, f, indent)),
                            IF plain THEN NoWrites ELSE Piece("'"))
                        : f \in { Folds(NextFold(1, col + (IF plain THEN 1 ELSE 2),
                                                 FoldAt(sp, Len(s)), q),
                                        Cardinality(FoldAt(sp, Len(s))),
                                        FoldAt(sp, Len(s)), q, indent) } }
                      : sp \in { { i \in 1..Len(s) : Ch(s, i) = " " } },
                        q \in { IF plain THEN {}
                                ELSE { i \in 1..Len(s) : Ch(s, i) = "'" } } }
              : plain \in { Plain(s) } } : TRUE

\* "key: value" and a line break, the key indented by ind.
Entry(ind, key, s) ==
    CHOOSE r \in
      { Writes(<< Piece(Rep(" ", ind)), Piece(key), Piece(":"),
                  Scalar(t, ind + Len(key) + 1, ind + 2), Piece("\n") >>)
        : t \in { s } } : TRUE

\* A block sequence of integers: one "- n" line each, at the indentation of
\* its key.
RECURSIVE DumpDims(_)
DumpDims(d) ==
    IF d = << >> THEN NoWrites
    ELSE Cat(Writes(<< Piece("  "), Piece("-"), Piece(" "),
                       Piece(ToString(Head(d))), Piece("\n") >>),
             DumpDims(Tail(d)))

\* The video_dims entry of the validation mapping: an empty list is written
\* in flow style.
DumpVideoDims(doc) ==
    IF ~doc.has_video_dims THEN NoWrites
    ELSE IF doc.video_dims = << >>
    THEN Writes(<< Piece("  "), Piece("video_dims"), Piece(":"),
                   Piece(" ["), Piece("]"), Piece("\n") >>)
    ELSE Cat(Writes(<< Piece("  "), Piece("video_dims"), Piece(":"), Piece("\n") >>),
             DumpDims(doc.video_dims))

\* The validation entry: nothing if the key is absent; the value as it is if
\* it is no mapping; "{}" for a mapping without entries; otherwise its
\* entries in key order.
DumpValidation(doc) ==
    IF doc.validation = "absent" THEN NoWrites
    ELSE IF doc.validation # "map"
    THEN Writes(<< Piece("validation"), Piece(":"), doc.rest.validation_value >>)
    ELSE IF ~doc.has_video_dims /\ doc.rest.validation = << NoWrites, NoWrites >>
    THEN Writes(<< Piece("validation"), Piece(":"), Piece(" {"), Piece("}"),
                   Piece("\n") >>)
    ELSE Writes(<< Piece("validation"), Piece(":"), Piece("\n"),
                   doc.rest.validation[1], DumpVideoDims(doc),
                   doc.rest.validation[2] >>)

\* Line 97, yaml.dump(config, f): a document that has a data mapping, in
\* block style with the keys sorted.  The entries the script does not touch
\* stand between the ones it sets.
Dump(doc) ==
    Writes(<< doc.rest.top[1],
              Piece("data"), Piece(":"), Piece("\n"),
              doc.rest.data[1],
              Entry(2, "preprocessed_data_root", Str(doc.preprocessed_data_root)),
              doc.rest.data[2],
              Entry(2, "training_token", Str(doc.training_token)),
              doc.rest.data[3],
              doc.rest.top[2],
              Entry(0, "output_dir", Str(doc.output_dir)),
              doc.rest.top[3],
              DumpValidation(doc),
              doc.rest.top[4] >>)

\* f is a TextIOWrapper: it collects what it is handed and passes it on to
\* the file in chunks.  Before it takes a write that would bring the
\* collected text above ChunkSize it passes on what it has, and it passes on
\* what it has once that is ChunkSize or more; the rest goes out when
\* yaml.dump flushes the stream at the end of the document.
ChunkSize == 8192

\* The end of the chunk that starts at offset from.
ChunkEnd(cuts, from) ==
    LET fits == { c \in cuts : from < c /\ c <= from + ChunkSize }
    IN  IF fits # {} THEN Max(fits) ELSE Min({ c \in cuts : c > from })

\* The ends of the chunks of a text of n characters, from offset from on.
RECURSIVE ChunkEnds(_, _, _)
ChunkEnds(cuts, from, n) ==
    IF from >= n THEN {}
    ELSE UNION { { e } \cup ChunkEnds(cuts, e, n) : e \in { ChunkEnd(cuts, from) } }

\* The end of the chunk a process passes on next: p holds the text it
\* writes, the ends of its chunks and the offset it has written up to.
NextEnd(p) == Min({ e \in p.ends : e > p.offset })

\* Line 96, open(updated_config_path, 'w'): the file is there and is empty.
Truncate(files, path) ==
    [q \in DOMAIN files \cup { path } |-> IF q = path THEN EmptyFile ELSE files[q]]

\* write(fd, chunk) at the offset at of the writing process: the bytes go
\* where they belong whatever the file holds by now.  If another process
\* has truncated the file in between, the bytes between its end and at are
\* a hole.
WriteAt(file, at, chunk) ==
    CHOOSE r \in
      { [text  |-> (IF size >= at THEN SubSeq(file.text, 1, at)
                    ELSE file.text \o Rep(".", at - size))
                     \o chunk
                     \o SubSeq(file.text, at + Len(chunk) + 1, size),
         holes |-> (file.holes \ (at..(at + Len(chunk) - 1)))
                     \cup (size..(at - 1))]
        : size \in { Len(file.text) } } : TRUE

\* The file after the process has passed on the chunk that starts at the
\* offset p.offset.
WriteChunk(files, p) ==
    [files EXCEPT ![p.path] =
       WriteAt(@, p.offset,
               SubSeq(p.text, p.offset + 1, NextEnd(p)))]

\* All the chunks of p from its offset on, with no other process in between.
RECURSIVE WriteAll(_, _)
WriteAll(files, p) ==
    IF p.offset >= Len(p.text) THEN files
    ELSE WriteAll(WriteChunk(files, p),
                  [p EXCEPT !.offset = NextEnd(p)])

\* Lines 60-95 of update_yaml_config(args, training_output_dir): the
\* exception raised, or the document to write and the path to write it to.
derive_config(a, outdir, files) ==
    LET base == files[a.config_path]
        fail(e) == [raised |-> e, config |-> NoDoc, path |-> Absent,
                    dims |-> << >>, diag |-> "none"]
    IN  IF base.loaded = "unparseable" THEN fail("YAMLError")
        ELSE IF DataError(base) # "none" THEN fail(DataError(base))
        ELSE
          LET c1 == [base EXCEPT !.preprocessed_data_root = data_root(a)]
              c2 == set_output_dir(c1, outdir)
          IN  CHOOSE r \in
                { IF vd.raised # "none" THEN fail(vd.raised)
                  ELSE [raised |-> "none",
                        config |-> set_training_token(vd.config, a),
                        path |-> UpdatedConfigPath(a, outdir),
                        dims |-> vd.dims, diag |-> vd.diag]
                  : vd \in { update_video_dims(a, c2) } } : TRUE

\* update_yaml_config's locals once the file is open: the path, the
\* document, the text yaml.dump writes for it, the ends of the chunks in
\* which the text goes to the file, and the offset up to which it is
\* written.
Opened(path, config) ==
    CHOOSE r \in
      { [path |-> path, config |-> config, text |-> d.text,
         ends |-> ChunkEnds(d.cuts, 0, Len(d.text)), offset |-> 0]
        : d \in { Dump(config) } } : TRUE

\* The whole of update_yaml_config, run without another process in between:
\* the exception it raises, or the file it writes.
update_yaml_config(a, outdir, files) ==
    LET r == derive_config(a, outdir, files)
    IN  [raised |-> r.raised,
         files |-> IF r.raised = "none"
                   THEN WriteAll(Truncate(files, r.path), Opened(r.path, r.config))
                   ELSE files,
         path |-> r.path, dims |-> r.dims, diag |-> r.diag]

\* ------------------------------------------------------------------ main
Steps == << "captioning", "preprocessing", "config", "training" >>
StepSet == { Steps[i] : i \in 1..Len(Steps) }

\* The wall clock advances in ticks shorter than a second.
TicksPerSecond == 2

\* datetime.now().strftime("%Y%m%d_%H%M%S"): the clock cut to whole seconds.
Strftime(t) == "20250101_12000" \o ToString(t \div TicksPerSecond)

ExitStatusAlwaysZero(e) == 0

\* An exception that leaves main() ends the interpreter with status 1;
\* returning from main() ends it with status 0.
ExitStatus(e) == IF e = "none" THEN 0 ELSE 1

CheckedRunUnchecked(rc) == "none"

\* subprocess.run(cmd, check=True) raises CalledProcessError when the
\* process returns a non-zero status.
CheckedRun(rc) == IF rc # 0 THEN "CalledProcessError" ELSE "none"

ReturnCodes == { 0, 1 }

caption_cmd(a, captions_output) ==
    [ script |-> "caption_videos.py", dataset_dir |-> a.dataset_dir,
      output |-> captions_output, captioner_type |-> a.captioner_type ]

preprocess_cmd_default_captions(a, captions_output) ==
    [ script |-> "preprocess_dataset.py",
      captions |-> Join(a.dataset_dir, << "captions", ".json" >>),
      caption_column |-> a.caption_column, video_column |-> a.video_column,
      id_token |-> a.id_token, resolution_buckets |-> a.resolution_buckets ]

preprocess_cmd(a, captions_output) ==
    [ script |-> "preprocess_dataset.py", captions |-> captions_output,
      caption_column |-> a.caption_column, video_column |-> a.video_column,
      id_token |-> a.id_token, resolution_buckets |-> a.resolution_buckets ]

train_cmd_base_config(path) == [ script |-> "train.py", config |-> DefaultConfigPath ]

train_cmd(path) == [ script |-> "train.py", config |-> path ]

\* No second invocation.
NoPending == [path |-> Absent, config |-> NoDoc, text |-> "", ends |-> {}, offset |-> 0]

NoPeer ==
    [ pc |-> "absent", argv |-> NotGiven, args |-> NotGiven,
      training_output_dir |-> Absent, updated_config_path |-> Absent,
      pending |-> NoPending, config |-> "none", exitCode |-> -1 ]

\* A second invocation with the command line b, about to start.
PeerAt(b) ==
    [ pc |-> "makedirs", argv |-> b, args |-> parse_args(b),
      training_output_dir |-> Absent, updated_config_path |-> Absent,
      pending |-> NoPending, config |-> "none", exitCode |-> -1 ]

\* The state in which main() starts for the command line a, next to the
\* second invocation other, with one of docs as the base configuration.
StartWith(a, other, docs) ==
    /\ now = 0
    /\ peer = other
    /\ pending = NoPending
    /\ argv = a
    /\ args = parse_args(argv)
    /\ fs \in { [p \in {args.config_path} |-> d] : d \in docs }
    /\ dirs = {}
    /\ pc = "makedirs"
    /\ running = {}
    /\ invoked = << >>
    /\ results = [s \in StepSet |-> "none"]
    /\ cmds = << >>
    /\ training_output_dir = Absent
    /\ updated_config_path = Absent
    /\ dims = << >>
    /\ diag = "none"
    /\ raised = "none"
    /\ exitCode = -1

\* The state in which main() starts for the command line a.
Start(a) == StartWith(a, NoPeer, BaseDocs)

Init == \E a \in Argvs \cup ArgvsLong : Start(a)

\* Command lines for the runs whose termination is checked.
ArgvsFair ==
    { a \in ArgvsWide :
        /\ a.dataset_dir = DatasetDir
        /\ a.captions_output = NotGiven
        /\ a.output_dir_base = NotGiven
        /\ a.id_token = NotGiven
        /\ a.config_path = NotGiven
        /\ a.preprocessed_data_root = NotGiven
        /\ a.resolution_buckets \in { NotGiven, T512x512xq }
        /\ a.video_dims \in { NotGiven, << >>, T512x512 } }

InitFair == \E a \in ArgvsFair : Start(a)

InitWide == \E a \in ArgvsWide : Start(a)

\* Command lines for two invocations side by side: they vary the output
\* base, the token and the dimensions.
ArgvsTwo ==
    { a \in ArgvsWide :
        /\ a.dataset_dir = DatasetDir
        /\ a.captions_output = NotGiven
        /\ a.config_path = NotGiven
        /\ a.preprocessed_data_root = NotGiven
        /\ a.resolution_buckets = NotGiven
        /\ a.video_dims \in { NotGiven, T512x512 } }

\* Their base configuration: a mapping, with or without its sections.
BaseDocsTwo ==
    { d \in BaseDocs : d.loaded = "map" /\ d.data # "scalar" }
      \ { DocEmptyDims, DocValidationList, DocWithRest, DocManyImages }

\* The configuration that is longer than a chunk goes with the command
\* lines that leave the dimensions alone.
InitTwo ==
    \/ \E a, b \in ArgvsTwo : StartWith(a, PeerAt(b), BaseDocsTwo)
    \/ \E a, b \in { c \in ArgvsTwo : c.video_dims = NotGiven } :
          StartWith(a, PeerAt(b), { DocManyImages })

\* The exception e propagates out of main().
Raise(e) ==
    /\ raised' = e
    /\ exitCode' = ExitStatus(e)
    /\ pc' = "exit"

\* Lines 146-150: the timestamped folder is created.
MakeDirs ==
    /\ pc = "makedirs"
    /\ LET d == Join(args.output_dir_base, << "train_", Strftime(now) >>)
       IN  /\ training_output_dir' = d
           /\ dirs' = dirs \cup { d }
    /\ pc' = "run_captioning"
    /\ UNCHANGED << argv, args, fs, running, invoked, results, cmds,
                    updated_config_path, dims, diag, raised, exitCode,
                    pending, now, peer >>

\* os.makedirs fails (permission denied, disk full).
MakeDirsFails ==
    /\ pc = "makedirs"
    /\ Raise("OSError")
    /\ UNCHANGED << argv, args, fs, dirs, running, invoked, results, cmds,
                    training_output_dir, updated_config_path, dims, diag,
                    pending, now, peer >>

\* subprocess.run starts the process of a step ...
Launch(step, cmd) ==
    /\ running' = running \cup { step }
    /\ invoked' = Append(invoked, step)
    /\ cmds' = Append(cmds, cmd)
    /\ pc' = "wait_" \o step
    /\ UNCHANGED << argv, args, fs, dirs, results, training_output_dir,
                    updated_config_path, dims, diag, raised, exitCode,
                    pending, now, peer >>

\* ... and returns when the process has ended with status rc.
Returns(step, rc, next) ==
    /\ pc = "wait_" \o step
    /\ running' = running \ { step }
    /\ results' = [results EXCEPT ![step] = IF rc = 0 THEN "ok" ELSE "failed"]
    /\ LET e == CheckedRun(rc)
       IN  IF e = "none"
           THEN /\ pc' = next
                /\ exitCode' = IF next = "exit" THEN ExitStatus("none") ELSE exitCode
                /\ UNCHANGED raised
           ELSE Raise(e)
    /\ UNCHANGED << argv, args, fs, dirs, invoked, cmds, training_output_dir,
                    updated_config_path, dims, diag, pending, now, peer >>

run_captioning ==
    /\ pc = "run_captioning"
    /\ Launch("captioning", caption_cmd(args, args.captions_output))

captioning_returns_retries ==
    \/ Returns("captioning", 0, "run_preprocessing")
    \/ /\ pc = "wait_captioning"
       /\ pc' = "run_captioning"
       /\ running' = running \ { "captioning" }
       /\ results' = [results EXCEPT !["captioning"] = "failed"]
       /\ invoked' = << >>
       /\ cmds' = << >>
       /\ UNCHANGED << argv, args, fs, dirs, training_output_dir,
                       updated_config_path, dims, diag, raised, exitCode,
                       pending, now, peer >>

captioning_returns ==
    \E rc \in ReturnCodes : Returns("captioning", rc, "run_preprocessing")

run_preprocessing ==
    /\ pc = "run_preprocessing"
    /\ Launch("preprocessing", preprocess_cmd(args, args.captions_output))

preprocessing_returns_skips_config ==
    \E rc \in ReturnCodes : Returns("preprocessing", rc, "run_training")

preprocessing_returns ==
    \E rc \in ReturnCodes : Returns("preprocessing", rc, "update_yaml_config")

\* Step 3 up to the first write of line 97: load, update, open the new file,
\* make the text of the document.  An exception raised on the way leaves
\* main() as in Raise, with nothing opened.
UpdateYamlConfig ==
    /\ pc = "update_yaml_config"
    /\ \E r \in { derive_config(args, training_output_dir, fs) } :
           /\ invoked' = Append(invoked, "config")
           /\ dims' = r.dims
           /\ diag' = r.diag
           /\ fs' = IF r.raised = "none" THEN Truncate(fs, r.path) ELSE fs
           /\ pending' = IF r.raised = "none"
                         THEN Opened(r.path, r.config) ELSE pending
           /\ results' = [results EXCEPT !["config"] =
                             IF r.raised = "none" THEN "none" ELSE "failed"]
           /\ raised' = r.raised
           /\ exitCode' = IF r.raised = "none" THEN exitCode ELSE ExitStatus(r.raised)
           /\ pc' = IF r.raised = "none" THEN "dump_config" ELSE "exit"
    /\ UNCHANGED << argv, args, dirs, running, cmds, training_output_dir,
                    updated_config_path, now, peer >>

\* Line 97: yaml.dump passes a chunk on to the file, and has more to write.
UpdateYamlConfigWrites ==
    /\ pc = "dump_config"
    /\ NextEnd(pending) < Len(pending.text)
    /\ fs' = WriteChunk(fs, pending)
    /\ pending' = [pending EXCEPT !.offset = NextEnd(pending)]
    /\ UNCHANGED << argv, args, dirs, pc, running, invoked, results, cmds,
                    training_output_dir, updated_config_path, dims, diag,
                    raised, exitCode, now, peer >>

\* Lines 97-100 and 159: the last chunk is written, the file closed, and
\* the path returned to main().
UpdateYamlConfigReturns ==
    /\ pc = "dump_config"
    /\ NextEnd(pending) = Len(pending.text)
    /\ fs' = WriteChunk(fs, pending)
    /\ pending' = [pending EXCEPT !.offset = Len(pending.text)]
    /\ updated_config_path' = pending.path
    /\ results' = [results EXCEPT !["config"] = "ok"]
    /\ pc' = "run_training"
    /\ UNCHANGED << argv, args, dirs, running, invoked, cmds,
                    training_output_dir, dims, diag, raised, exitCode,
                    now, peer >>

run_training ==
    /\ pc = "run_training"
    /\ Launch("training", train_cmd(updated_config_path))

training_returns ==
    \E rc \in ReturnCodes : Returns("training", rc, "exit")

Next ==
    \/ MakeDirs
    \/ MakeDirsFails
    \/ run_captioning
    \/ captioning_returns
    \/ run_preprocessing
    \/ preprocessing_returns
    \/ UpdateYamlConfig
    \/ UpdateYamlConfigWrites
    \/ UpdateYamlConfigReturns
    \/ run_training
    \/ training_returns

Spec == Init /\ [][Next]_vars

\* The same program on command lines that vary every argument.
SpecWide == InitWide /\ [][Next]_vars

\* main() keeps running while it can: every process launched ends, and the
\* interpreter takes its next step.
FairSpec == InitFair /\ [][Next]_vars /\ WF_vars(Next)

\* ------------------------------------------------------------------ two runs
\* What the first invocation owns; the second one leaves it alone.
own == << argv, args, pc, running, invoked, results, cmds,
          training_output_dir, updated_config_path, dims, diag, raised,
          exitCode, pending >>

\* Time passes.
Tick ==
    /\ now < MaxTicks
    /\ now' = now + 1
    /\ UNCHANGED << own, fs, dirs, peer >>

\* Lines 146-150 in the second invocation: os.makedirs(exist_ok=True) takes
\* the directory whether or not it is there already.
PeerMakeDirs ==
    /\ peer.pc = "makedirs"
    /\ LET d == Join(peer.args.output_dir_base, << "train_", Strftime(now) >>)
       IN  /\ peer' = [peer EXCEPT !.pc = "run_captioning",
                                    !.training_output_dir = d]
           /\ dirs' = dirs \cup { d }
    /\ UNCHANGED << own, fs, now >>

\* os.makedirs fails in the second invocation.
PeerMakeDirsFails ==
    /\ peer.pc = "makedirs"
    /\ peer' = [peer EXCEPT !.pc = "exit", !.exitCode = ExitStatus("OSError")]
    /\ UNCHANGED << own, fs, dirs, now >>

\* The step main() takes after the process of step has returned 0.
AfterStep(step) ==
    CASE step = "captioning"    -> "run_preprocessing"
      [] step = "preprocessing" -> "update_yaml_config"
      [] step = "training"      -> "exit"

\* subprocess.run in the second invocation starts the process of a step ...
PeerLaunch ==
    /\ \E step \in { "captioning", "preprocessing", "training" } :
         /\ peer.pc = "run_" \o step
         /\ peer' = [peer EXCEPT !.pc = "wait_" \o step]
    /\ UNCHANGED << own, fs, dirs, now >>

\* ... and returns when the process has ended with status rc.
PeerReturns ==
    /\ \E step \in { "captioning", "preprocessing", "training" }, rc \in ReturnCodes :
         /\ peer.pc = "wait_" \o step
         /\ LET e == CheckedRun(rc)
                nxt == IF e = "none" THEN AfterStep(step) ELSE "exit"
            IN  peer' = [peer EXCEPT !.pc = nxt,
                                     !.exitCode = IF nxt = "exit" THEN ExitStatus(e)
                                                  ELSE peer.exitCode]
    /\ UNCHANGED << own, fs, dirs, now >>

\* Step 3 of the second invocation up to the first write of line 97, on the
\* same disk.
PeerUpdateYamlConfig ==
    /\ peer.pc = "update_yaml_config"
    /\ \E r \in { derive_config(peer.args, peer.training_output_dir, fs) } :
           /\ fs' = IF r.raised = "none" THEN Truncate(fs, r.path) ELSE fs
           /\ peer' = [peer EXCEPT
                         !.pending = IF r.raised = "none"
                                     THEN Opened(r.path, r.config)
                                     ELSE peer.pending,
                         !.config = IF r.raised = "none" THEN "none" ELSE "failed",
                         !.exitCode = IF r.raised = "none" THEN peer.exitCode
                                      ELSE ExitStatus(r.raised),
                         !.pc = IF r.raised = "none" THEN "dump_config" ELSE "exit"]
    /\ UNCHANGED << own, dirs, now >>

\* Line 97 in the second invocation: a chunk that is not the last.
PeerUpdateYamlConfigWrites ==
    /\ peer.pc = "dump_config"
    /\ NextEnd(peer.pending) < Len(peer.pending.text)
    /\ fs' = WriteChunk(fs, peer.pending)
    /\ peer' = [peer EXCEPT !.pending.offset = NextEnd(peer.pending)]
    /\ UNCHANGED << own, dirs, now >>

\* Lines 97-100 and 159 in the second invocation.
PeerUpdateYamlConfigReturns ==
    /\ peer.pc = "dump_config"
    /\ NextEnd(peer.pending) = Len(peer.pending.text)
    /\ fs' = WriteChunk(fs, peer.pending)
    /\ peer' = [peer EXCEPT !.pending.offset = Len(peer.pending.text),
                             !.updated_config_path = peer.pending.path,
                             !.config = "ok",
                             !.pc = "run_training"]
    /\ UNCHANGED << own, dirs, now >>

NextTwo ==
    \/ Next
    \/ Tick
    \/ PeerMakeDirs
    \/ PeerMakeDirsFails
    \/ PeerLaunch
    \/ PeerReturns
    \/ PeerUpdateYamlConfig
    \/ PeerUpdateYamlConfigWrites
    \/ PeerUpdateYamlConfigReturns

\* Two invocations of the script, started at any two moments.
SpecTwo == InitTwo /\ [][NextTwo]_vars

\* ------------------------------------------------------------------ properties
ExternalSteps == { "captioning", "preprocessing", "training" }
Range(q) == { q[i] : i \in 1..Len(q) }

\* The base configuration file and the derived configuration file.
BaseDoc == fs[args.config_path]
DerivedWritten == updated_config_path # Absent /\ updated_config_path \in DOMAIN fs

\* A file holds exactly the text a process made for it.
Holds(file, p) == file.holes = {} /\ file.text = p.text

\* What a file that is not the text of the expected document loads as is
\* left open.
TornDoc == [NoDoc EXCEPT !.loaded = "torn"]

\* The document the derived file loads as.
DerivedDoc ==
    IF Holds(fs[updated_config_path], pending) THEN pending.config ELSE TornDoc

\* The document the derived file of the second invocation loads as.
PeerDerivedDoc ==
    IF Holds(fs[peer.updated_config_path], peer.pending) THEN peer.pending.config
    ELSE TornDoc
NothingWritten == DOMAIN fs = { args.config_path }

\* C1: once an external stage has ended with a failure status, no later step
\* is ever invoked: the failed stage is the last entry of the invocation
\* history, the run has ended and nothing is running; after a failed
\* captioning only captioning was invoked and no file was written; after a
\* failed preprocessing training was not invoked.
C1_AbortOnFirstFailure ==
    /\ \A i \in 1..Len(invoked) :
         (invoked[i] \in ExternalSteps /\ results[invoked[i]] = "failed")
           => (i = Len(invoked) /\ pc = "exit" /\ running = {})
    /\ results["captioning"] = "failed"
         => (invoked = << "captioning" >> /\ NothingWritten)
    /\ results["preprocessing"] = "failed"
         => (invoked = << "captioning", "preprocessing" >> /\ NothingWritten)

C1_Witness ==
    /\ pc = "exit"
    /\ results["captioning"] = "failed"
    /\ invoked = << "captioning" >>

\* C2: the invocation history is a prefix of <captioning, preprocessing,
\* config derivation, training> (so no step is invoked twice), a step is
\* invoked only when the step before it has ended successfully, and at most
\* one step is running, namely the one invoked last.
C2_StrictSequentialOrder ==
    /\ Len(invoked) <= Len(Steps)
    /\ \A i \in 1..Len(invoked) : invoked[i] = Steps[i]
    /\ \A i \in 2..Len(invoked) : results[invoked[i - 1]] = "ok"
    /\ Cardinality(running) <= 1
    /\ running # {} => running = { invoked[Len(invoked)] }

C2_Witness ==
    /\ invoked = Steps
    /\ running = { "training" }

\* C3: a run that has ended has a non-zero exit status if any step failed,
\* and has exit status zero only if all four steps succeeded; a run that has
\* not ended has no exit status.
C3_ExitStatus ==
    /\ pc = "exit" <=> exitCode # -1
    /\ pc = "exit" =>
         /\ (\E s \in StepSet : results[s] = "failed") => exitCode # 0
         /\ exitCode = 0 => \A s \in StepSet : results[s] = "ok"

C3_Witness ==
    /\ pc = "exit"
    /\ results["training"] = "failed"
    /\ exitCode = 1

\* A text of the form WxHxF: exactly two separators, at positions i < j, and
\* an integer literal before, between and after them.
XAt(t) == { i \in 1..Len(t) : t[i] = "x" }

IsWxHxF(t) ==
    /\ Cardinality(XAt(t)) = 2
    /\ \E i, j \in XAt(t) :
         /\ i < j
         /\ IntLiteral(SubSeq(t, 1, i - 1))
         /\ IntLiteral(SubSeq(t, i + 1, j - 1))
         /\ IntLiteral(SubSeq(t, j + 1, Len(t)))

\* Its width, height and frame count, read off by position.
WHF(t) ==
    LET i == CHOOSE k \in XAt(t) : \A m \in XAt(t) : k <= m
        j == CHOOSE k \in XAt(t) : \A m \in XAt(t) : m <= k
    IN  << IntVal(SubSeq(t, 1, i - 1)), IntVal(SubSeq(t, i + 1, j - 1)),
           IntVal(SubSeq(t, j + 1, Len(t))) >>

OverridePresent == args.video_dims # << >>
ConfigStepDone == results["config"] # "none"
TrainingReached == pc \in { "run_training", "wait_training" } \/ "training" \in Range(invoked)
RunFailedBeforeTraining ==
    /\ pc = "exit" /\ exitCode # 0 /\ raised # "none"
    /\ results["config"] = "failed"
    /\ ~DerivedWritten /\ NothingWritten
    /\ ~("training" \in Range(invoked))

\* C4 as stated: a --video_dims text that is present and is not three
\* x-separated integers makes config derivation fail: the run ends in failure,
\* no derived configuration exists and training is not invoked.
C4_MalformedOverrideIsFatal ==
    (ConfigStepDone /\ OverridePresent /\ ~IsWxHxF(args.video_dims))
      => RunFailedBeforeTraining

\* C4 as amended: a --video_dims text that is present and is not three
\* x-separated integers is not fatal.  With a base configuration that has a
\* data section, config derivation prints the --video_dims diagnostic, leaves
\* validation.video_dims as in the base configuration, writes the derived
\* file, and the run goes on to training.
C4_MalformedOverrideIsLogged ==
    (/\ ConfigStepDone /\ OverridePresent /\ ~IsWxHxF(args.video_dims)
     /\ BaseDoc.loaded = "map" /\ BaseDoc.data = "map")
      => /\ results["config"] = "ok"
         /\ diag = "video_dims"
         /\ DerivedWritten
         /\ DerivedDoc.video_dims = BaseDoc.video_dims
         /\ DerivedDoc.validation = BaseDoc.validation
         /\ TrainingReached

C4_Witness ==
    /\ argv.video_dims = T512x512
    /\ BaseDoc.video_dims = BaseVideoDims
    /\ DerivedWritten
    /\ DerivedDoc.video_dims = BaseVideoDims
    /\ diag = "video_dims"
    /\ "training" \in Range(invoked)

\* C5: with a base configuration that is a mapping without a validation
\* section, config derivation fails and the run ends in failure before
\* training is invoked, whatever --video_dims and --resolution_buckets are.
C5_MissingValidationIsFatal ==
    (ConfigStepDone /\ BaseDoc.loaded = "map" /\ BaseDoc.validation = "absent")
      => RunFailedBeforeTraining

\* C6: with a base configuration that cannot be parsed, is empty, or has no
\* data section, config derivation fails before anything is written, the run
\* ends in failure and training is not invoked.
C6_MissingDataIsFatal ==
    (ConfigStepDone /\ (BaseDoc.loaded # "map" \/ BaseDoc.data = "absent"))
      => RunFailedBeforeTraining

C6_Witness ==
    /\ BaseDoc.loaded = "map"
    /\ BaseDoc.data = "absent"
    /\ BaseDoc.validation = "map"
    /\ results["config"] = "failed"
    /\ raised = "KeyError"
    /\ pc = "exit"

\* C7: when the caller gives no --video_dims and --resolution_buckets is a
\* WxHxF text, the derived validation.video_dims are the three integers of
\* the bucket text (base configuration with data and validation sections).
C7_BucketFallbackWhenNoOverrideGiven ==
    (/\ results["config"] = "ok" /\ argv.video_dims = NotGiven
     /\ IsWxHxF(args.resolution_buckets)
     /\ BaseDoc.data = "map" /\ BaseDoc.validation = "map")
      => DerivedDoc.video_dims = WHF(args.resolution_buckets)

\* C8: when the caller gives a --video_dims text of the form WxHxF, the
\* derived validation.video_dims are its three integers, whatever the bucket
\* text is (base configuration with data and validation sections).
C8_ExplicitOverrideWins ==
    (/\ results["config"] = "ok" /\ argv.video_dims # NotGiven
     /\ IsWxHxF(argv.video_dims)
     /\ BaseDoc.data = "map" /\ BaseDoc.validation = "map")
      => /\ DerivedWritten
         /\ DerivedDoc.video_dims = WHF(argv.video_dims)

\* C9: when the caller gives no --video_dims (or an empty one) and the bucket
\* text is not three x-separated integers, config derivation succeeds:
\* validation.video_dims stays as in the base configuration, the derived file
\* is written and the run goes on to training (base configuration with a data
\* section).
C9_FallbackParseFailureIsNotFatal ==
    (/\ ConfigStepDone /\ argv.video_dims \in { NotGiven, << >> }
     /\ ~IsWxHxF(args.resolution_buckets)
     /\ BaseDoc.loaded = "map" /\ BaseDoc.data = "map")
      => /\ results["config"] = "ok"
         /\ raised \in { "none", "CalledProcessError" }
         /\ DerivedWritten
         /\ DerivedDoc.video_dims = BaseDoc.video_dims
         /\ DerivedDoc.validation = BaseDoc.validation
         /\ TrainingReached

\* The text update_yaml_config reads the dimensions from.
ParsedText ==
    IF OverridePresent THEN args.video_dims ELSE args.resolution_buckets

\* C10: after config derivation, if the text it parsed has the form WxHxF then
\* the parsed list is exactly (width, height, frames) in this order; if the
\* text has another number of pieces or a piece that is no integer, then
\* validation.video_dims of the derived configuration is that of the base
\* configuration.
C10_DimensionParsing ==
    results["config"] = "ok" =>
      /\ IsWxHxF(ParsedText) => dims = WHF(ParsedText)
      /\ ~IsWxHxF(ParsedText) =>
           /\ DerivedDoc.video_dims = BaseDoc.video_dims
           /\ DerivedDoc.validation = BaseDoc.validation

\* C11: whenever validation.video_dims of the derived configuration differs
\* from the base configuration's, it is a list of exactly three strictly
\* positive integers (a text with a zero or negative piece is rejected).
C11_WrittenDimsArePositive ==
    (results["config"] = "ok" /\ DerivedDoc.video_dims # BaseDoc.video_dims)
      => /\ Len(DerivedDoc.video_dims) = 3
         /\ \A i \in 1..3 : DerivedDoc.video_dims[i] > 0

\* Both invocations have been given their output directory.
BothAllocated == training_output_dir # Absent /\ peer.training_output_dir # Absent

\* C12: two invocations never hold the same output directory (an allocation
\* in a second already used under the same base fails or yields another
\* path), and the derived file of each invocation holds what that invocation
\* wrote, not what the other one wrote: the text of its document and
\* nothing else.
C12_NoSilentCollision ==
    /\ BothAllocated => training_output_dir # peer.training_output_dir
    /\ results["config"] = "ok" =>
         /\ updated_config_path # peer.updated_config_path
         /\ Holds(fs[updated_config_path], pending)
         /\ DerivedDoc.training_token = args.id_token
    /\ peer.config = "ok" =>
         /\ Holds(fs[peer.updated_config_path], peer.pending)
         /\ PeerDerivedDoc.training_token = peer.args.id_token

\* Outside the colliding case, directories are distinct: invocations with
\* different bases, or allocating in different seconds, never share one.
DistinctWhenApart ==
    (/\ BothAllocated
     /\ \/ args.output_dir_base # peer.args.output_dir_base
        \/ training_output_dir[Len(training_output_dir)]
             # peer.training_output_dir[Len(peer.training_output_dir)])
      => training_output_dir # peer.training_output_dir

\* The token the caller asked for.
RequestedToken ==
    IF argv.id_token = NotGiven THEN DefaultIdToken ELSE argv.id_token

\* C13: for every base configuration with a data section and every command
\* line, the derived configuration has output_dir equal to the directory
\* created for this run and data.training_token equal to the requested
\* token, whatever the base file held and whether or not the dimensions
\* parsed.
C13_OutputDirAndToken ==
    results["config"] = "ok" =>
      /\ training_output_dir \in dirs
      /\ DerivedDoc.output_dir = training_output_dir
      /\ DerivedDoc.training_token = RequestedToken
      /\ cmds[2].id_token = RequestedToken

C13_Witness ==
    /\ results["config"] = "ok"
    /\ argv.id_token = TokenOverride
    /\ argv.output_dir_base = OutputBaseOverride
    /\ argv.video_dims = T512x512
    /\ BaseDoc.training_token = << "old_token" >>
    /\ DerivedDoc.training_token = TokenOverride
    /\ DerivedDoc.output_dir = << "runs", "/", "train_", "20250101_120000" >>

\* dataset_dir without a trailing separator, then "/.precomputed".
ExpectedDefaultRoot ==
    LET d == argv.dataset_dir
        bare == IF d # << >> /\ d[Len(d)] = "/" THEN SubSeq(d, 1, Len(d) - 1) ELSE d
    IN  bare \o << "/", ".precomputed" >>

\* C14: in the derived configuration, data.preprocessed_data_root is
\* <dataset_dir>/.precomputed when the override is omitted (or empty), is the
\* override when one is supplied, and is never the base file's own value.
C14_PreprocessedDataRoot ==
    results["config"] = "ok" =>
      /\ argv.preprocessed_data_root \in { NotGiven, << >> }
           => DerivedDoc.preprocessed_data_root = ExpectedDefaultRoot
      /\ argv.preprocessed_data_root \notin { NotGiven, << >> }
           => DerivedDoc.preprocessed_data_root = argv.preprocessed_data_root
      /\ DerivedDoc.preprocessed_data_root # BaseDoc.preprocessed_data_root

C14_Witness ==
    /\ results["config"] = "ok"
    /\ argv.dataset_dir = DatasetDirSlash
    /\ argv.preprocessed_data_root = NotGiven
    /\ BaseDoc.preprocessed_data_root = << "old_root" >>
    /\ DerivedDoc.preprocessed_data_root = << "videos", "/", ".precomputed" >>

\* The two invocations were asked the same thing, the output base aside.
SameRequest ==
    [argv EXCEPT !.output_dir_base = NotGiven]
      = [peer.argv EXCEPT !.output_dir_base = NotGiven]

\* C15: when two invocations with the same request and the same base
\* configuration have derived their configurations into two different output
\* directories, each document names its own directory in output_dir and the
\* two documents are equal in every other field.
C15_DeterministicUpToOutputDir ==
    (/\ results["config"] = "ok" /\ peer.config = "ok"
     /\ SameRequest
     /\ training_output_dir # peer.training_output_dir)
      => /\ DerivedDoc.output_dir = training_output_dir
         /\ PeerDerivedDoc.output_dir = peer.training_output_dir
         /\ [DerivedDoc EXCEPT !.output_dir = Absent]
              = [PeerDerivedDoc EXCEPT !.output_dir = Absent]

C15_Witness ==
    /\ results["config"] = "ok" /\ peer.config = "ok"
    /\ argv = peer.argv
    /\ argv.video_dims = NotGiven
    /\ BaseDoc.validation = "map"
    /\ training_output_dir = << "outputs", "/", "train_", "20250101_120000" >>
    /\ peer.training_output_dir = << "outputs", "/", "train_", "20250101_120001" >>
    /\ DerivedDoc.video_dims = << 768, 768, 89 >>
    /\ PeerDerivedDoc.video_dims = << 768, 768, 89 >>
    /\ DerivedDoc.preprocessed_data_root = PeerDerivedDoc.preprocessed_data_root

\* <name>_updated.<ext>: the suffix goes before the last piece of the name.
WithUpdatedSuffix(name) ==
    IF Len(name) < 2 THEN name \o << "_updated" >>
    ELSE SubSeq(name, 1, Len(name) - 1) \o << "_updated", name[Len(name)] >>

\* C16: for every base configuration path, the derived configuration is
\* written to <output dir>/<base name>_updated.<ext>, which is not the base
\* path, and the base file still holds what it held before the run.
C16_DerivedFileNameAndBaseUntouched ==
    results["config"] = "ok" =>
      /\ updated_config_path =
           training_output_dir \o << "/" >>
             \o WithUpdatedSuffix(Basename(args.config_path))
      /\ updated_config_path # args.config_path
      /\ BaseDoc \in BaseDocs

\* The captions file the caller asked for: the override, else
\* <dataset_dir>/captions.json.
ResolvedCaptions ==
    LET d == argv.dataset_dir
        bare == IF d # << >> /\ d[Len(d)] = "/" THEN SubSeq(d, 1, Len(d) - 1) ELSE d
    IN  IF argv.captions_output = NotGiven
        THEN bare \o << "/", "captions", ".json" >>
        ELSE argv.captions_output

\* C17: the captions path is resolved once, before any step (the override,
\* else <dataset_dir>/captions.json), captioning is told to write to it, and
\* preprocessing is given the very path captioning was given.
C17_CaptionsPathPropagation ==
    /\ args.captions_output = ResolvedCaptions
    /\ Len(cmds) >= 1 => cmds[1].output = ResolvedCaptions
    /\ Len(cmds) >= 2 => cmds[2].captions = cmds[1].output

C17_Witness ==
    /\ argv.captions_output = CaptionsOverride
    /\ invoked = << "captioning", "preprocessing" >>
    /\ cmds[1].output = CaptionsOverride
    /\ cmds[2].captions = CaptionsOverride

Done == pc = "exit" /\ exitCode = 0
Failed == pc = "exit" /\ exitCode # 0

\* The run has ended in failure, and step was the last one it invoked.
FailedAfter(step) == Failed /\ invoked # << >> /\ invoked[Len(invoked)] = step

\* Failed can be reached from each stage: a stage that is about to launch its
\* process can launch it, a stage waiting for its process can end in Failed
\* with the next step (and the last one can end in Done as well), and config
\* derivation ends in Failed with its next step exactly when the base
\* configuration cannot be parsed, is empty or has no data mapping.
FailedReachable ==
    /\ \A s \in ExternalSteps :
         /\ pc = "run_" \o s => ENABLED (Next /\ pc' = "wait_" \o s)
         /\ pc = "wait_" \o s => ENABLED (Next /\ FailedAfter(s)')
    /\ pc = "wait_training" => ENABLED (Next /\ Done')
    /\ pc = "update_yaml_config" =>
         (ENABLED (Next /\ FailedAfter("config")')
            <=> (BaseDoc.loaded # "map" \/ BaseDoc.data # "map"))

\* C18: with every launched process ending and main() taking its steps, every
\* run ends, in Done or in Failed; Done is reached only with all four steps
\* successful; once the run has ended nothing changes any more (no step is
\* invoked, the state stays as it is); and Failed can be reached from
\* captioning, from preprocessing, from config derivation and from training.
C18_TerminalStates ==
    /\ <>(Done \/ Failed)
    /\ [](Done => \A s \in StepSet : results[s] = "ok")
    /\ [][pc = "exit" => UNCHANGED vars]_vars
    /\ []FailedReachable

C18_Witness ==
    /\ Done
    /\ invoked = Steps

IsPrefix(p, q) == Len(p) <= Len(q) /\ SubSeq(q, 1, Len(p)) = p

C19_State ==
    /\ invoked # << >> => training_output_dir \in dirs
    /\ DOMAIN fs \ { args.config_path } \subseteq { pending.path }
    /\ updated_config_path # Absent => updated_config_path = pending.path
    /\ ~NothingWritten =>
         /\ results["captioning"] = "ok"
         /\ results["preprocessing"] = "ok"
         /\ DerivedWritten \/ pc = "dump_config"
         /\ fs[pending.path].holes = {}
         /\ fs[pending.path].text = SubSeq(pending.text, 1, pending.offset)
    /\ (results["captioning"] = "failed" \/ results["preprocessing"] = "failed")
         => (training_output_dir \in dirs /\ NothingWritten)
    /\ "training" \in Range(invoked) =>
         /\ DerivedWritten
         /\ cmds[Len(cmds)].script = "train.py"
         /\ cmds[Len(cmds)].config = updated_config_path
         /\ IsPrefix(training_output_dir \o << "/" >>, updated_config_path)
         /\ DerivedDoc.output_dir = training_output_dir
         /\ Holds(fs[updated_config_path], pending)
         /\ pending.text = Dump(pending.config).text

\* C19: the output directory exists before captioning is invoked; the
\* derived file is written at most once (it is opened once, when no derived
\* file exists, and filled once, every write adding to what this run has
\* written before and nothing else), and only after
\* captioning and preprocessing succeeded (a run that fails in either leaves
\* the directory without a derived file); and training is given exactly the
\* path of the derived file written in this run, inside this run's output
\* directory.
C19_HandOffArtifact ==
    /\ []C19_State
    /\ [][fs' # fs =>
            \/ NothingWritten /\ pc = "update_yaml_config"
            \/ /\ pc = "dump_config"
               /\ pending.offset < Len(pending.text)
               /\ fs[pending.path].text = SubSeq(pending.text, 1, pending.offset)
               /\ fs'[pending.path].text = SubSeq(pending.text, 1, pending'.offset)
               /\ pending'.offset > pending.offset]_vars

C19_Witness ==
    /\ "training" \in Range(invoked)
    /\ argv.config_path = ConfigYamlBak
    /\ argv.output_dir_base = OutputBaseOverride
    /\ cmds[Len(cmds)].config =
         << "runs", "/", "train_", "20250101_120000", "/", "run", "_updated", ".yaml", ".bak" >>
    /\ updated_config_path \in DOMAIN fs

====
